---------------------------- MODULE Spec2Model ----------------------------
(***************************************************************************)
(* A model of package simplelru (src/simplelru/lruImpl.go): the LRU struct *)
(* (size, ttl, cache, evictList, onEvicted), the entries held by the       *)
(* elements of the container/list recency list, and the ten public         *)
(* operations of the LRUCache interface (src/simplelru/lru.go).            *)
(*                                                                         *)
(* Every operation of the Go code is a pure operator from a "world" (the   *)
(* struct, the heap of list elements, the log of callback invocations and  *)
(* the panic flag) to a new world and a returned value; one action per     *)
(* public method applies it.  A nil pointer dereference in the Go code is  *)
(* a run-time panic: the handler stops where it is, the writes it has made *)
(* so far stay, and the model sets panicked and stops.                     *)
(***************************************************************************)
EXTENDS Integers, Sequences, FiniteSets, TLC

\* ------------------------------------------------------------------ bounds
MaxSize == 2
MaxTtl == 1
MaxTime == 2
MaxLog == 3

\* --------------------------------------------------------------- constants
NoLimitSize == 0
NoLimitTTL == 0

\* The nil interface value (a nil key, a nil value, an absent result).
NIL == "nil"
\* The nil *list.Element: the zero value of `item` after a failed map lookup.
NilElement == 0

Keys == {"k1", "k2", "k3"}
Values == {"a", "b"}
KeyInputs == Keys \cup {NIL}
ValueInputs == Values \cup {NIL}
SizeInputs == -1 .. MaxSize
TtlInputs == -1 .. MaxTtl
\* The empty map (make(map[interface{}]*list.Element)) and the empty heap.
EmptyMap == [x \in {} |-> NilElement]

VARIABLES
    size,       \* c.size
    ttl,        \* c.ttl
    cache,      \* c.cache: key -> *list.Element (NilElement for a nil pointer)
    evictList,  \* c.evictList: the elements, front (most recent) first
    onEvicted,  \* c.onEvicted /= nil
    entries,    \* element -> its Value, an *entry [key, value, updatedAt]
    evicted,    \* the callback invocations so far, <<key, value>> each
    panicked,   \* a nil dereference has happened
    now,        \* the wall clock read by time.Now() and time.Since()
    call,       \* the last public call and its arguments
    ret,        \* what the last public call returned
    lastSet     \* history: key -> e.updatedAt of the entry e built by the last
                \* Set(key, v) that was not rejected

vars == <<size, ttl, cache, evictList, onEvicted, entries, evicted, panicked,
          now, call, ret, lastSet>>

\* ------------------------------------------------------------------ helpers
Entry(k, v, t) == [key |-> k, value |-> v, updatedAt |-> t]

World == [size |-> size, ttl |-> ttl, cache |-> cache, evictList |-> evictList,
          onEvicted |-> onEvicted, entries |-> entries, evicted |-> evicted,
          panicked |-> panicked]

Panic(w) == [w EXCEPT !.panicked = TRUE]

Ret(k, v, ok, n, keys) == [k |-> k, v |-> v, ok |-> ok, n |-> n, keys |-> keys]
NoRet == Ret(NIL, NIL, FALSE, 0, <<>>)
Result(w, r) == [w |-> w, ret |-> r]

Call(op, k, v, n) == [op |-> op, k |-> k, v |-> v, n |-> n]

\* f without the key k (delete(m, k)).
Without(f, k) == [x \in DOMAIN f \ {k} |-> f[x]]
\* f with k mapped to x (m[k] = x).
With(f, k, x) == [y \in DOMAIN f \cup {k} |-> IF y = k THEN x ELSE f[y]]

SeqWithout(s, x) == SelectSeq(s, LAMBDA y : y /= x)
InSeq(s, x) == \E i \in 1 .. Len(s) : s[i] = x

\* ------------------------------------------------------------- container/list
\* l.Len()
ListLen(w) == Len(w.evictList)
\* l.Back(): the last element, nil for an empty list.
Back(w) == IF w.evictList = <<>> THEN NilElement ELSE w.evictList[Len(w.evictList)]
\* l.MoveToFront(e): reads e.list, so a nil e panics; an element of another
\* list (or a removed one) is left alone.
MoveToFront(w, e) ==
    IF e = NilElement THEN Panic(w)
    ELSE IF ~InSeq(w.evictList, e) THEN w
    ELSE [w EXCEPT !.evictList = <<e>> \o SeqWithout(w.evictList, e)]
\* l.Remove(e): reads e.list, so a nil e panics.
ListRemove(w, e) ==
    IF e = NilElement THEN Panic(w)
    ELSE [w EXCEPT !.evictList = SeqWithout(w.evictList, e)]

\* ---------------------------------------------------------------- NewLRU
NewLRU(sz, t, cb) ==
    [size |-> IF sz <= NoLimitSize THEN NoLimitSize ELSE sz,
     ttl |-> IF t <= NoLimitTTL THEN NoLimitTTL ELSE t,
     cache |-> EmptyMap,
     evictList |-> <<>>,
     onEvicted |-> cb,
     entries |-> EmptyMap,
     evicted |-> <<>>,
     panicked |-> FALSE]

Init ==
    /\ \E sz \in SizeInputs, t \in TtlInputs, cb \in BOOLEAN :
          LET w == NewLRU(sz, t, cb) IN
          /\ size = w.size
          /\ ttl = w.ttl
          /\ cache = w.cache
          /\ evictList = w.evictList
          /\ onEvicted = w.onEvicted
          /\ entries = w.entries
          /\ evicted = w.evicted
          /\ panicked = w.panicked
    /\ now = 0
    /\ call = Call("NewLRU", NIL, NIL, 0)
    /\ ret = NoRet
    /\ lastSet = EmptyMap

\* The primed struct, heap, log and panic flag are those of world w.
Becomes(w) ==
    /\ size' = w.size
    /\ ttl' = w.ttl
    /\ cache' = w.cache
    /\ evictList' = w.evictList
    /\ onEvicted' = w.onEvicted
    /\ entries' = w.entries
    /\ evicted' = w.evicted
    /\ panicked' = w.panicked

\* ------------------------------------------------------------ the methods
\* c.expired(k) at time t: "false", "true", or "panic" when the indexed
\* pointer is nil (item.Value dereferences it).
expired(w, k, t) ==
    IF w.ttl = NoLimitTTL THEN "false"
    ELSE IF k \in DOMAIN w.cache
         THEN IF w.cache[k] = NilElement THEN "panic"
              ELSE IF t - w.entries[w.cache[k]].updatedAt <= w.ttl THEN "false"
              ELSE "true"
         ELSE "true"

\* c.removeElement(e)
removeElement(w, e) ==
    LET w1 == ListRemove(w, e) IN
    IF w1.panicked THEN w1
    ELSE LET kv == w.entries[e]
             w2 == [w1 EXCEPT !.cache = Without(w1.cache, kv.key),
                              !.entries = Without(w1.entries, e)]
         IN IF w.onEvicted
            THEN [w2 EXCEPT !.evicted = Append(w2.evicted, <<kv.key, kv.value>>)]
            ELSE w2

\* c.removeOldest()
removeOldest(w) ==
    LET item == Back(w) IN
    IF item /= NilElement THEN removeElement(w, item) ELSE w

\* Set without the test for a nil key or value.
SetUnchecked(w, k, v, t) ==
    LET e == Entry(k, v, t)
        w1 == IF k \in DOMAIN w.cache
              THEN LET item == w.cache[k] IN
                   IF item = NilElement THEN Panic(w)
                   ELSE MoveToFront(
                            [w EXCEPT !.entries = With(w.entries, item, e)],
                            item)
              ELSE [w EXCEPT !.cache = With(w.cache, k, NilElement)]
        w2 == IF w1.panicked THEN w1
              ELSE IF w1.size /= NoLimitSize /\ ListLen(w1) > w1.size
                   THEN removeOldest(w1)
                   ELSE w1
    IN Result(w2, NoRet)

\* c.Set(k, v) at time t
Set(w, k, v, t) ==
    IF k = NIL \/ v = NIL THEN Result(w, NoRet)
    ELSE LET e == Entry(k, v, t)
             w1 == IF k \in DOMAIN w.cache
                   THEN LET item == w.cache[k] IN
                        IF item = NilElement THEN Panic(w)
                        ELSE MoveToFront(
                                 [w EXCEPT !.entries = With(w.entries, item, e)],
                                 item)
                   ELSE [w EXCEPT !.cache = With(w.cache, k, NilElement)]
             w2 == IF w1.panicked THEN w1
                   ELSE IF w1.size /= NoLimitSize /\ ListLen(w1) > w1.size
                        THEN removeOldest(w1)
                        ELSE w1
         IN Result(w2, NoRet)

\* c.Get(k) at time t
Get(w, k, t) ==
    IF k \in DOMAIN w.cache
    THEN LET x == expired(w, k, t) IN
         IF x = "panic" THEN Result(Panic(w), NoRet)
         ELSE IF x = "true" THEN Result(w, NoRet)
         ELSE LET item == w.cache[k]
                  w1 == MoveToFront(w, item)
              IN IF w1.panicked THEN Result(w1, NoRet)
                 ELSE IF w.entries[item].value = NIL THEN Result(w1, NoRet)
                 ELSE Result(w1, Ret(NIL, w.entries[item].value, TRUE, 0, <<>>))
    ELSE Result(w, NoRet)

\* c.Contains(k) at time t
Contains(w, k, t) ==
    IF k \in DOMAIN w.cache
    THEN LET x == expired(w, k, t) IN
         IF x = "panic" THEN Result(Panic(w), NoRet)
         ELSE Result(w, Ret(NIL, NIL, x = "false", 0, <<>>))
    ELSE Result(w, Ret(NIL, NIL, FALSE, 0, <<>>))

\* Peek as an eagerly expiring lookup: an indexed entry that cannot be
\* returned (expired, or without a live element) is dropped from the index.
PeekDropping(w, k, t) ==
    IF k \in DOMAIN w.cache
    THEN IF w.cache[k] = NilElement \/ expired(w, k, t) = "true"
         THEN Result([w EXCEPT !.cache = Without(w.cache, k)],
                     Ret(NIL, NIL, FALSE, 0, <<>>))
         ELSE Result(w, Ret(NIL, w.entries[w.cache[k]].value, TRUE, 0, <<>>))
    ELSE Result(w, Ret(NIL, NIL, FALSE, 0, <<>>))

\* c.Peek(k) at time t.  The named result ok is assigned by the map lookup
\* and returned as it is when the entry is expired.
Peek(w, k, t) ==
    LET ok == k \in DOMAIN w.cache IN
    IF ok
    THEN LET x == expired(w, k, t) IN
         IF x = "panic" THEN Result(Panic(w), NoRet)
         ELSE IF x = "true" THEN Result(w, Ret(NIL, NIL, ok, 0, <<>>))
         ELSE LET item == w.cache[k] IN
              IF item = NilElement THEN Result(Panic(w), NoRet)
              ELSE Result(w, Ret(NIL, w.entries[item].value, TRUE, 0, <<>>))
    ELSE Result(w, Ret(NIL, NIL, ok, 0, <<>>))

\* c.Remove(k)
Remove(w, k) ==
    IF k \in DOMAIN w.cache
    THEN LET w1 == removeElement(w, w.cache[k]) IN
         IF w1.panicked THEN Result(w1, NoRet)
         ELSE Result(w1, Ret(NIL, NIL, TRUE, 0, <<>>))
    ELSE Result(w, Ret(NIL, NIL, FALSE, 0, <<>>))

\* c.RemoveOldest()
RemoveOldest(w) ==
    LET item == Back(w) IN
    IF item /= NilElement
    THEN LET w1 == removeElement(w, item)
             kv == w.entries[item]
         IN Result(w1, Ret(kv.key, kv.value, TRUE, 0, <<>>))
    ELSE Result(w, Ret(NIL, NIL, FALSE, 0, <<>>))

\* c.Len()
LenOf(w) == Result(w, Ret(NIL, NIL, FALSE, ListLen(w), <<>>))

\* The loop of c.Keys() at time t, from element i of the list towards its
\* front: the keys appended, or <<"panic">> when expired dereferences nil.
RECURSIVE KeysFrom(_, _, _)
KeysFrom(w, i, t) ==
    IF i = 0 THEN <<>>
    ELSE LET k == w.entries[w.evictList[i]].key
             x == expired(w, k, t)
         IN IF x = "panic" THEN <<"panic">>
            ELSE IF x = "true" THEN <<>>
            ELSE LET rest == KeysFrom(w, i - 1, t) IN
                 IF rest = <<"panic">> THEN rest ELSE <<k>> \o rest

\* c.Keys() at time t
KeysOf(w, t) ==
    LET ks == KeysFrom(w, ListLen(w), t) IN
    IF ks = <<"panic">> THEN Result(Panic(w), NoRet)
    ELSE Result(w, Ret(NIL, NIL, FALSE, 0, ks))

\* The range loop of c.Purge() over the keys in the order `order`.
RECURSIVE PurgeLoop(_, _)
PurgeLoop(w, order) ==
    IF order = <<>> THEN w
    ELSE LET k == Head(order)
             v == w.cache[k]
         IN IF w.onEvicted /\ v = NilElement THEN Panic(w)
            ELSE LET w1 == IF w.onEvicted
                           THEN [w EXCEPT !.evicted =
                                     Append(w.evicted, <<k, w.entries[v].value>>)]
                           ELSE w
                     w2 == [w1 EXCEPT !.cache = Without(w1.cache, k)]
                 IN PurgeLoop(w2, Tail(order))

\* The orders in which a range loop may visit the keys of a map.
Orders(S) ==
    {o \in [1 .. Cardinality(S) -> S] : \A i, j \in DOMAIN o : i /= j => o[i] /= o[j]}

\* c.Purge(), the map visited in the order `order`
Purge(w, order) ==
    LET w1 == PurgeLoop(w, order) IN
    IF w1.panicked THEN Result(w1, NoRet)
    ELSE Result([w1 EXCEPT !.evictList = <<>>, !.entries = EmptyMap], NoRet)

\* The loop of c.Resize: removeOldest, n times.
RECURSIVE ResizeLoop(_, _)
ResizeLoop(w, n) ==
    IF n = 0 \/ w.panicked THEN w ELSE ResizeLoop(removeOldest(w), n - 1)

\* Resize returning early when there is nothing to evict, before the new
\* size is stored.
ResizeSkipping(w, sz) ==
    LET d == ListLen(w) - sz
        diff == IF d < 0 THEN 0 ELSE d
        w1 == ResizeLoop(w, diff)
    IN IF w1.panicked THEN Result(w1, NoRet)
       ELSE IF diff = 0 THEN Result(w1, Ret(NIL, NIL, FALSE, 0, <<>>))
       ELSE Result([w1 EXCEPT !.size = sz], Ret(NIL, NIL, FALSE, diff, <<>>))

\* c.Resize(sz)
Resize(w, sz) ==
    LET d == ListLen(w) - sz
        diff == IF d < 0 THEN 0 ELSE d
        w1 == ResizeLoop(w, diff)
    IN IF w1.panicked THEN Result(w1, NoRet)
       ELSE Result([w1 EXCEPT !.size = sz], Ret(NIL, NIL, FALSE, diff, <<>>))

\* ------------------------------------------------------------- the actions
\* A public call: the program has not crashed, and the log is within bounds.
Running == ~panicked /\ Len(evicted) < MaxLog

Returns(r) == Becomes(r.w) /\ ret' = r.ret

CallSet ==
    /\ Running
    /\ \E k \in KeyInputs, v \in ValueInputs :
          /\ Returns(Set(World, k, v, now))
          /\ call' = Call("Set", k, v, 0)
          /\ lastSet' = IF k = NIL \/ v = NIL THEN lastSet
                        ELSE With(lastSet, k, Entry(k, v, now).updatedAt)
    /\ UNCHANGED now

CallGet ==
    /\ Running
    /\ \E k \in KeyInputs :
          /\ Returns(Get(World, k, now))
          /\ call' = Call("Get", k, NIL, 0)
    /\ UNCHANGED <<now, lastSet>>

CallContains ==
    /\ Running
    /\ \E k \in KeyInputs :
          /\ Returns(Contains(World, k, now))
          /\ call' = Call("Contains", k, NIL, 0)
    /\ UNCHANGED <<now, lastSet>>

CallPeek ==
    /\ Running
    /\ \E k \in KeyInputs :
          /\ Returns(Peek(World, k, now))
          /\ call' = Call("Peek", k, NIL, 0)
    /\ UNCHANGED <<now, lastSet>>

CallRemove ==
    /\ Running
    /\ \E k \in KeyInputs :
          /\ Returns(Remove(World, k))
          /\ call' = Call("Remove", k, NIL, 0)
    /\ UNCHANGED <<now, lastSet>>

CallRemoveOldest ==
    /\ Running
    /\ Returns(RemoveOldest(World))
    /\ call' = Call("RemoveOldest", NIL, NIL, 0)
    /\ UNCHANGED <<now, lastSet>>

CallLen ==
    /\ Running
    /\ Returns(LenOf(World))
    /\ call' = Call("Len", NIL, NIL, 0)
    /\ UNCHANGED <<now, lastSet>>

CallKeys ==
    /\ Running
    /\ Returns(KeysOf(World, now))
    /\ call' = Call("Keys", NIL, NIL, 0)
    /\ UNCHANGED <<now, lastSet>>

CallPurge ==
    /\ Running
    /\ \E order \in Orders(DOMAIN cache) :
          Returns(Purge(World, order))
    /\ call' = Call("Purge", NIL, NIL, 0)
    /\ UNCHANGED <<now, lastSet>>

CallResize ==
    /\ Running
    /\ \E sz \in SizeInputs :
          /\ Returns(Resize(World, sz))
          /\ call' = Call("Resize", NIL, NIL, sz)
    /\ UNCHANGED <<now, lastSet>>

\* Time passes between two calls.
Tick ==
    /\ ~panicked
    /\ now < MaxTime
    /\ now' = now + 1
    /\ UNCHANGED <<size, ttl, cache, evictList, onEvicted, entries, evicted,
                   panicked, call, ret, lastSet>>

Next ==
    \/ CallSet
    \/ CallGet
    \/ CallContains
    \/ CallPeek
    \/ CallRemove
    \/ CallRemoveOldest
    \/ CallLen
    \/ CallKeys
    \/ CallPurge
    \/ CallResize
    \/ Tick

Spec == Init /\ [][Next]_vars

\* ------------------------------------------------------------- the claims
\* The keys for which Contains answers true now.
Contained == {k \in Keys : k \in DOMAIN cache /\ expired(World, k, now) = "false"}
\* Key k, last stored at lastSet[k], has not outlived the TTL.
Fresh(k) == ttl = NoLimitTTL \/ now - lastSet[k] <= ttl
\* The step is a call of method op.
Calls(op) == call'.op = op /\ ~panicked

\* C1: a Set(k, v) that is not rejected, followed immediately by Get(k)
\* while the TTL has not elapsed, returns (v, true).
RoundTrip ==
    [][(/\ call.op = "Set" /\ call.k /= NIL /\ call.v /= NIL
        /\ Calls("Get") /\ call'.k = call.k
        /\ Fresh(call.k))
       => (~panicked' /\ ret'.ok /\ ret'.v = call.v)]_vars

\* C2: whenever the capacity is bounded (size /= 0), Len() <= size.
CapacityInvariant == size /= NoLimitSize => Len(evictList) <= size

\* C3: with a bounded capacity N and no TTL, a Set of a new key leaves the
\* new key in the cache and at most N keys for which Contains is true: the
\* least recently touched one has been evicted.
LruEviction ==
    [][(/\ Calls("Set") /\ call'.k /= NIL /\ call'.v /= NIL
        /\ call'.k \notin DOMAIN cache
        /\ ttl = NoLimitTTL /\ size > 0)
       => (/\ ~panicked'
           /\ call'.k \in Contained'
           /\ Cardinality(Contained') <= size')]_vars

\* C4: no sequence of public calls reaches a panic.
Totality == ~panicked

\* C5: with a callback configured, a call that is to remove entries (Remove
\* of an indexed key, Purge) makes them leave the cache with exactly one
\* callback each, and every call invokes as many callbacks as entries leave.
CallbackAccounting ==
    [][(onEvicted /\ ~panicked) =>
        /\ Len(evicted') - Len(evicted)
              = Cardinality(DOMAIN cache \ DOMAIN cache')
        /\ (call'.op = "Remove" /\ call'.k \in DOMAIN cache) =>
              (/\ call'.k \notin DOMAIN cache'
               /\ Len(evicted') = Len(evicted) + 1
               /\ evicted'[Len(evicted')][1] = call'.k)
        /\ (call'.op = "Purge" /\ (call.op /= "Purge" \/ cache /= EmptyMap)) =>
              (/\ DOMAIN cache' = {}
               /\ Len(evicted') = Len(evicted) + Cardinality(DOMAIN cache))]_vars

\* C6: Get(k) on a key that is present and not expired returns (stored
\* value, true) and moves k's entry to the front of the recency list, the
\* relative order of the other entries unchanged.
GetPromotes ==
    [][(Calls("Get") /\ call'.k \in DOMAIN cache /\ Fresh(call'.k))
       => (/\ ~panicked'
           /\ ret'.ok /\ ret'.v \in Values
           /\ evictList' /= <<>>
           /\ entries'[evictList'[1]].key = call'.k
           /\ SeqWithout(evictList', evictList'[1])
                 = SeqWithout(evictList, evictList'[1]))]_vars

PeekSameAsGet ==
    [][Calls("Peek") =>
          LET g == Get(World, call'.k, now) IN
          /\ ~panicked' /\ ~g.w.panicked
          /\ ret'.v = g.ret.v /\ ret'.ok = g.ret.ok
          /\ (call'.k \in DOMAIN cache /\ ~Fresh(call'.k)) => ~ret'.ok]_vars

\* C9: Get(k) on an indexed but expired key returns not-found and removes
\* nothing (index, recency list, Len() and callback log unchanged); a later
\* Remove(k) returns true and decreases Len() by one.
LazyExpiry ==
    [][/\ (Calls("Get") /\ call'.k \in DOMAIN cache /\ ~Fresh(call'.k))
          => (/\ ~panicked' /\ ~ret'.ok /\ ret'.v = NIL
              /\ UNCHANGED <<cache, evictList, entries, evicted>>)
       /\ (/\ call.op = "Get" /\ call.k \in DOMAIN cache /\ ~Fresh(call.k)
           /\ Calls("Remove") /\ call'.k = call.k)
          => (/\ ~panicked' /\ ret'.ok
              /\ Len(evictList') = Len(evictList) - 1)]_vars

\* C10: Contains(k) is true iff k is stored and either the TTL is unlimited
\* or now - lastUpdated(k) <= ttl, and it changes no state.
ContainsIffStoredAndFresh ==
    [][Calls("Contains") =>
          /\ ~panicked'
          /\ ret'.ok = (call'.k \in DOMAIN cache /\ Fresh(call'.k))
          /\ UNCHANGED <<size, ttl, cache, evictList, onEvicted, entries,
                         evicted, lastSet>>]_vars

\* C11: Set(k, v) on a key that is already present replaces the value,
\* resets the timestamp to now (k is visible again), moves the entry to the
\* front, and leaves Len(), the other entries and the callback log alone.
SetRefreshesInPlace ==
    [][(/\ Calls("Set") /\ call'.k /= NIL /\ call'.v /= NIL
        /\ call'.k \in DOMAIN cache)
       => (/\ ~panicked'
           /\ DOMAIN cache' = DOMAIN cache
           /\ Len(evictList') = Len(evictList)
           /\ evicted' = evicted
           /\ call'.k \in Contained'
           /\ evictList' /= <<>>
           /\ entries'[evictList'[1]] = Entry(call'.k, call'.v, now)
           /\ SeqWithout(evictList', evictList'[1])
                 = SeqWithout(evictList, evictList'[1]))]_vars

\* C12: Remove(k) returns true iff k is present; then the entry leaves the
\* index and the list, Len() drops by one, the callback is invoked once with
\* k, and Contains(k) is false; otherwise nothing changes.
RemoveDeletes ==
    [][Calls("Remove") =>
          /\ ~panicked'
          /\ ret'.ok = (call'.k \in DOMAIN cache)
          /\ (call'.k \in DOMAIN cache) =>
                (/\ DOMAIN cache' = DOMAIN cache \ {call'.k}
                 /\ Len(evictList') = Len(evictList) - 1
                 /\ call'.k \notin Contained'
                 /\ onEvicted =>
                       (/\ Len(evicted') = Len(evicted) + 1
                        /\ SubSeq(evicted', 1, Len(evicted)) = evicted
                        /\ evicted'[Len(evicted')][1] = call'.k
                        /\ evicted'[Len(evicted')][2] \in Values)
                 /\ ~onEvicted => evicted' = evicted)
          /\ (call'.k \notin DOMAIN cache) =>
                UNCHANGED <<size, ttl, cache, evictList, onEvicted, entries,
                            evicted>>]_vars

\* C13: RemoveOldest returns found = false exactly when the cache holds no
\* entry; otherwise it removes one entry (the back-most), returns its key
\* and value, and Len() drops by one.
RemoveOldestFindsAnEntry ==
    [][Calls("RemoveOldest") =>
          /\ ~panicked'
          /\ ret'.ok = (DOMAIN cache /= {})
          /\ (DOMAIN cache /= {}) =>
                (/\ ret'.k \in DOMAIN cache
                 /\ ret'.v \in Values
                 /\ DOMAIN cache' = DOMAIN cache \ {ret'.k}
                 /\ Len(evictList') = Len(evictList) - 1
                 /\ onEvicted => Len(evicted') = Len(evicted) + 1)]_vars

\* C14: Resize(n) returns the number of entries it has removed (and called
\* back); for a bounded n < Len() that number is Len() - n, and afterwards
\* Len() = n and the capacity is n.
ResizeCountsRemoved ==
    [][Calls("Resize") =>
          /\ ~panicked'
          /\ ret'.n = Len(evictList) - Len(evictList')
          /\ ret'.n = Cardinality(DOMAIN cache \ DOMAIN cache')
          /\ onEvicted => Len(evicted') = Len(evicted) + ret'.n
          /\ (call'.n /= NoLimitSize /\ call'.n < Len(evictList)) =>
                (/\ ret'.n = Len(evictList) - call'.n
                 /\ Len(evictList') = call'.n
                 /\ size' = call'.n)]_vars

PurgeEmpties ==
    [][Calls("Purge") =>
          /\ ~panicked'
          /\ DOMAIN cache' = {}
          /\ evictList' = <<>>
          /\ Contained' = {}
          /\ onEvicted =>
                (/\ Len(evicted') = Len(evicted) + Cardinality(DOMAIN cache)
                 /\ SubSeq(evicted', 1, Len(evicted)) = evicted
                 /\ {evicted'[i][1] : i \in Len(evicted) + 1 .. Len(evicted')}
                       = DOMAIN cache)
          /\ ~onEvicted => evicted' = evicted]_vars

\* The keys of the recency list, least recently used first.
ListKeysOldestFirst ==
    [i \in 1 .. Len(evictList) |-> entries[evictList[Len(evictList) + 1 - i]].key]
\* The entry of list element h has outlived the TTL.
EntryExpired(h) == ttl /= NoLimitTTL /\ now - entries[h].updatedAt > ttl

\* C17: Keys() returns, oldest first, the keys of the list from its back up
\* to (not including) the first expired entry; with the TTL unlimited these
\* are all the stored keys; and it changes no state.
KeysListsStored ==
    [][Calls("Keys") =>
          LET ks == ret'.keys
              n == Len(ks)
          IN /\ ~panicked'
             /\ n <= Len(evictList)
             /\ ks = SubSeq(ListKeysOldestFirst, 1, n)
             /\ \A i \in 1 .. n : ~EntryExpired(evictList[Len(evictList) + 1 - i])
             /\ n < Len(evictList) => EntryExpired(evictList[Len(evictList) - n])
             /\ ttl = NoLimitTTL =>
                   {ks[i] : i \in 1 .. n} = DOMAIN cache
             /\ UNCHANGED <<size, ttl, cache, evictList, onEvicted, entries,
                            evicted, lastSet>>]_vars

\* C18: Set with a nil key or a nil value changes nothing and invokes no
\* callback; no nil key is indexed and no entry stores a nil value.
RejectedSetIsNoOp ==
    [][(Calls("Set") /\ (call'.k = NIL \/ call'.v = NIL)) =>
          /\ ~panicked'
          /\ UNCHANGED <<size, ttl, cache, evictList, onEvicted, entries,
                         evicted, lastSet>>
          /\ NIL \notin DOMAIN cache'
          /\ \A h \in DOMAIN entries' : entries'[h].value /= NIL]_vars

\* C18 witness: a Set with a nil key or value has returned on a cache that
\* holds a key.
SetWasRejected ==
    /\ call.op = "Set" /\ (call.k = NIL \/ call.v = NIL)
    /\ ~panicked
    /\ DOMAIN cache /= {}

\* C19: a key is in the index iff exactly one entry of the recency list has
\* that key, every index value is the live element holding it (never nil),
\* and the index has Len() keys.
IndexListLockstep ==
    /\ \A k \in DOMAIN cache :
          /\ cache[k] /= NilElement
          /\ InSeq(evictList, cache[k])
          /\ entries[cache[k]].key = k
    /\ \A i \in 1 .. Len(evictList) :
          /\ entries[evictList[i]].key \in DOMAIN cache
          /\ cache[entries[evictList[i]].key] = evictList[i]
    /\ Cardinality(DOMAIN cache) = Len(evictList)

\* C20: Get, Peek, Contains, Keys and Len change no timestamp, so a read of
\* a stored key finds it exactly while no more than ttl has passed since its
\* last Set, however often it has been read.
OnlySetStamps ==
    [][(\E op \in {"Get", "Peek", "Contains", "Keys", "Len"} : Calls(op)) =>
          /\ ~panicked'
          /\ entries' = entries
          /\ lastSet' = lastSet
          /\ (call'.op \in {"Get", "Contains"} /\ call'.k \in DOMAIN cache) =>
                ret'.ok = Fresh(call'.k)]_vars
=============================================================================
